---- MODULE Spec2Model ----
(***************************************************************************)
(* Command lifecycle and state projection of the smart-agri gateway.       *)
(*                                                                         *)
(* The repository holds several revisions of the same server.  The state   *)
(* (pendingCommands, deviceStates, the setTimeout timers) is the one they  *)
(* all declare; every request handler is one action, named after the       *)
(* route or socket event and translated from the revision given in         *)
(* MODEL_MAP.json.                                                         *)
(*                                                                         *)
(* Time is the reading of Date.now() in milliseconds, relative to process  *)
(* start.  Date.now().toString() and new Date().toISOString() are both     *)
(* injective and order preserving on the clock reading, and the handlers   *)
(* only compare them (===, <, >), so both are modelled by the reading.     *)
(***************************************************************************)
EXTENDS Integers, Sequences, FiniteSets, TLC

VARIABLES
  now,              \* clock reading, ms since process start
  pendingCommands,  \* deviceId -> queue (array) of command objects
  deviceStates,     \* deviceId -> projected device state
  timers,           \* setTimeout handles: timer number -> timer
  created,          \* number of command objects created so far
  nextCleanup,      \* earliest clock reading of the next setInterval callback
  deliveries,       \* history: command uid -> number of times it was handed to its device
  emitted,          \* what the last handler broadcast with io.emit
  sensorData,       \* deviceId -> latest reading
  historicalData,   \* plantType -> array of readings, oldest first
  ingested,         \* history: deviceId -> number of readings the device has sent
  rooms,            \* deviceIds whose socket.io room device_<id> has a member
  lightBefore       \* history: command uid -> projected light of its device at submission

vars ==
  <<now, pendingCommands, deviceStates, timers, created, nextCleanup, deliveries,
    emitted, sensorData, historicalData, ingested, rooms, lightBefore>>

----------------------------------------------------------------------------
(* Bounds of the model *)

MaxCommands == 2
\* commands per run of the specifications that range over the whole request
MaxSubmits == 1
\* readings of the device that streams, readings of each other device of a history run
MaxIngests == 150
MaxOtherIngests == 1
\* readings per run of the specification that ranges over the reported light status
MaxReadings == 2
\* hand-overs of one command on device connects
MaxHandovers == 2

----------------------------------------------------------------------------
(* Program constants *)

COMMAND_TYPES ==
  {"light_on", "light_off", "water_plant", "add_nutrients", "water_pump", "fert_pump", "led"}

PENDING == "pending"
COMPLETED == "completed"
FAILED == "failed"
TIMEOUT == "timeout"
COMMAND_STATUS == {PENDING, COMPLETED, FAILED, TIMEOUT}

devicePlantMap == [esp32_1 |-> "lettuce", esp32_2 |-> "spinach"]

TimeoutWindow == 5 * 60 * 1000
Retention == 60 * 60 * 1000
CleanupInterval == 30 * 60 * 1000
DefaultDuration == 3000
HistoryCapacity == 100

\* JavaScript's undefined and null, for numeric fields
Undefined == -2
Null == -1
\* a command object that carries no timeoutRef
NoTimer == 0

----------------------------------------------------------------------------
(* Inputs *)

\* one registered device, and one that is not in devicePlantMap
RequestDevices == {"esp32_1", "esp32_9"}
\* the devices that send telemetry: two of devicePlantMap and two that are not in it
TelemetryDevices == {"esp32_1", "esp32_2", "esp32_8", "esp32_9"}
\* "" is a missing field; "reboot" is a kind outside COMMAND_TYPES
Missing == ""
LifecycleKinds == {"water_plant", "reboot"}
RequestKinds == COMMAND_TYPES \cup {"reboot"}
RequestValues == {Undefined, 0, 7}
RequestDurations == {Undefined, 0, 500}
\* req.body.error of a failure report
ReportedErrors == {"jammed"}

\* the clock readings at which requests arrive and callbacks run: process start, the
\* end of a timeout window, the end of the retention window and one millisecond later
Instants == {0, TimeoutWindow, Retention, Retention + 1}
LastInstant == Retention + 1

\* the command ids a device or an operator may name: clock readings, and one never used
UnknownId == Retention + 2

----------------------------------------------------------------------------
(* Helpers *)

Put(f, k, v) == [x \in DOMAIN f \cup {k} |-> IF x = k THEN v ELSE f[x]]

\* arr.findIndex(c => c.id === id): the first index whose element has the id, 0 for -1
FindIndex(arr, id) ==
  IF \E i \in 1..Len(arr) : arr[i].id = id
    THEN CHOOSE i \in 1..Len(arr) : arr[i].id = id /\ \A j \in 1..(i - 1) : arr[j].id # id
    ELSE 0

IsPending(c) == c.status = PENDING

Event(name, d, commands) == [event |-> name, deviceId |-> d, commands |-> commands]

----------------------------------------------------------------------------
(* Construction *)

InitialDeviceState ==
  [light |-> "false", lastWatered |-> Null, lastNutrients |-> Null, lastUpdated |-> 0,
   connectionStatus |-> "disconnected", lastSeen |-> Null]

Init ==
  /\ now = 0
  /\ pendingCommands = [d \in {} |-> <<>>]
  /\ deviceStates = [d \in DOMAIN devicePlantMap |-> InitialDeviceState]
  /\ timers = <<>>
  /\ created = 0
  /\ nextCleanup = CleanupInterval
  /\ deliveries = <<>>
  /\ emitted = <<>>
  /\ sensorData = [d \in {} |-> <<>>]
  /\ historicalData = [plantType \in {} |-> <<>>]
  /\ ingested = [d \in TelemetryDevices |-> 0]
  /\ rooms = {}
  /\ lightBefore = <<>>

----------------------------------------------------------------------------
(* The clock *)

Tick ==
  /\ \E t \in Instants : t > now /\ now' = t
  /\ emitted' = <<>>
  /\ UNCHANGED <<pendingCommands, deviceStates, timers, created, nextCleanup, deliveries>>
  /\ UNCHANGED <<sensorData, historicalData, ingested, rooms, lightBefore>>

----------------------------------------------------------------------------
(* POST /send-command *)

ActuatorOnKinds == {"light_on", "water_pump", "fert_pump", "led"}

DefaultValue(command) == IF command \in ActuatorOnKinds THEN 1 ELSE 0

\* value !== undefined ? value : default
CommandValue(command, value) ==
  IF value # Undefined THEN value ELSE DefaultValue(command)

\* value || default: 0, null and undefined are falsy
LegacyCommandValue(command, value) ==
  IF value \notin {Undefined, Null, 0} THEN value ELSE DefaultValue(command)

\* duration || 3000
CommandDuration(duration) ==
  IF duration \notin {Undefined, Null, 0} THEN duration ELSE DefaultDuration

\* the command object; uid is the identity of the JavaScript object, id its id field
NewCommand(uid, d, command, value, duration, t) ==
  [uid |-> uid, id |-> t, command |-> command, value |-> value, deviceId |-> d,
   duration |-> duration, timestamp |-> t, status |-> PENDING,
   completedAt |-> Undefined, timeoutAt |-> Undefined, timeoutRef |-> NoTimer,
   error |-> "undefined"]

\* mutant of Enqueue: the command is put at the front of the queue
EnqueueFront(queues, d, obj) ==
  Put(queues, d, <<obj>> \o (IF d \in DOMAIN queues THEN queues[d] ELSE <<>>))

\* pendingCommands[deviceId] = pendingCommands[deviceId] || []; push(commandObj)
Enqueue(queues, d, obj) ==
  Put(queues, d, Append(IF d \in DOMAIN queues THEN queues[d] ELSE <<>>, obj))

\* mutant of ApplyCommandIssued: led is left out of the kinds that switch the light on
ApplyCommandIssuedNoLed(state, command, t) ==
  IF command = "light_on" THEN [state EXCEPT !.light = "true"]
  ELSE IF command = "light_off" THEN [state EXCEPT !.light = "false"]
  ELSE IF command \in {"water_plant", "water_pump"} THEN [state EXCEPT !.lastWatered = t]
  ELSE IF command \in {"add_nutrients", "fert_pump"} THEN [state EXCEPT !.lastNutrients = t]
  ELSE state

\* the predictive update of the device state
ApplyCommandIssued(state, command, t) ==
  IF command \in {"light_on", "led"} THEN [state EXCEPT !.light = "true"]
  ELSE IF command = "light_off" THEN [state EXCEPT !.light = "false"]
  ELSE IF command \in {"water_plant", "water_pump"} THEN [state EXCEPT !.lastWatered = t]
  ELSE IF command \in {"add_nutrients", "fert_pump"} THEN [state EXCEPT !.lastNutrients = t]
  ELSE state

\* whether the predictive update dereferences deviceStates[deviceId]
TouchesDeviceState(command) == command \in COMMAND_TYPES

\* setTimeout(callback, 5 * 60 * 1000); rev names the revision of the callback
NewTimer(d, id, t, rev) ==
  [deviceId |-> d, id |-> id, due |-> t + TimeoutWindow, state |-> "armed", rev |-> rev]

\* commandObj.timeoutRef = timeout, on the object just pushed (the last of the queue)
StoreTimeoutRef(queue, ref) == [queue EXCEPT ![Len(queue)].timeoutRef = ref]

IsValidKind(command) == command \in COMMAND_TYPES

Rejected ==
  /\ emitted' = <<>>
  /\ UNCHANGED <<now, pendingCommands, deviceStates, timers, created, nextCleanup, deliveries>>
  /\ UNCHANGED <<sensorData, historicalData, ingested, rooms, lightBefore>>

\* whether the revision keeps the timer in commandObj.timeoutRef
KeepsTimeoutRef(rev) == rev \in {"server.js", "part_003"}

\* io.emit('commandIssued', commandObj); part_003 first pushes executeCommand to the
\* device's room
IssueEvents(d, obj, rev) ==
  IF rev = "part_003"
    THEN <<Event("executeCommand", d, <<obj>>), Event("commandIssued", d, <<obj>>)>>
    ELSE <<Event("commandIssued", d, <<obj>>)>>

\* io.to('device_' + deviceId).emit('executeCommand', ...) reaches the device when its
\* socket is in the room
PushReaches(d, rev) == rev = "part_003" /\ d \in rooms

\* deviceStates[deviceId].light, "undefined" when the device has no entry
LightOf(states, d) == IF d \in DOMAIN states THEN states[d].light ELSE "undefined"

\* the body of the handler from the creation of commandObj on; rev is the revision
QueueCommand(d, command, value, duration, rev) ==
  LET uid == created + 1
      obj == NewCommand(uid, d, command, value, duration, now)
      queued == Enqueue(pendingCommands, d, obj)
      ref == Len(timers) + 1
  IN /\ created < MaxCommands
     /\ created' = uid
     /\ lightBefore' = Append(lightBefore, LightOf(deviceStates, d))
     /\ UNCHANGED <<now, nextCleanup>>
     /\ UNCHANGED <<sensorData, historicalData, ingested, rooms>>
     /\ IF TouchesDeviceState(command) /\ d \notin DOMAIN deviceStates
          THEN \* TypeError on deviceStates[deviceId].light, caught: 500
               /\ pendingCommands' = queued
               /\ emitted' = <<>>
               /\ deliveries' = Append(deliveries, 0)
               /\ UNCHANGED <<deviceStates, timers>>
          ELSE /\ deviceStates' =
                    IF TouchesDeviceState(command)
                      THEN [deviceStates EXCEPT ![d] = ApplyCommandIssued(@, command, now)]
                      ELSE deviceStates
               /\ emitted' = IssueEvents(d, obj, rev)
               /\ deliveries' = Append(deliveries, IF PushReaches(d, rev) THEN 1 ELSE 0)
               /\ timers' = Append(timers, NewTimer(d, obj.id, now, rev))
               /\ pendingCommands' =
                    IF KeepsTimeoutRef(rev)
                      THEN [queued EXCEPT ![d] = StoreTimeoutRef(@, ref)]
                      ELSE queued

SendCommand(d, command, value, duration) ==
  IF d = Missing \/ command = Missing THEN Rejected
  ELSE IF ~IsValidKind(command) THEN Rejected
  ELSE QueueCommand(d, command, CommandValue(command, value), CommandDuration(duration),
                    "server.js")

\* part_003, second server: the same handler, with the push to the device's room
PushSendCommand(d, command, value, duration) ==
  IF d = Missing \/ command = Missing THEN Rejected
  ELSE IF ~IsValidKind(command) THEN Rejected
  ELSE QueueCommand(d, command, CommandValue(command, value), CommandDuration(duration),
                    "part_003")

\* the earlier revision: no kind check, value || default, the timer is not kept
LegacySendCommand(d, command, value, duration) ==
  IF d = Missing \/ command = Missing THEN Rejected
  ELSE QueueCommand(d, command, LegacyCommandValue(command, value),
                    CommandDuration(duration), "part_000")

\* part_001, second server: four kinds, commandObj has no value, the timer is not kept
HttpCommandTypes == {"light_on", "light_off", "water_plant", "add_nutrients"}

HttpSendCommand(d, command, duration) ==
  IF d = Missing \/ command = Missing THEN Rejected
  ELSE IF command \notin HttpCommandTypes THEN Rejected
  ELSE QueueCommand(d, command, Undefined, CommandDuration(duration), "part_001")

----------------------------------------------------------------------------
(* The setTimeout callback of a command *)

\* the pending -> timeout transition; the callbacks of part_000 and part_001 set no
\* timeoutAt
MarkTimeout(c, t, rev) ==
  IF KeepsTimeoutRef(rev) THEN [c EXCEPT !.status = TIMEOUT, !.timeoutAt = t]
  ELSE [c EXCEPT !.status = TIMEOUT]

\* mutant of TimerGuard: the status of the command is not looked at
TimerGuardAnyStatus(queue, cmdIndex) == cmdIndex # 0

\* cmdIndex !== -1 && pendingCommands[deviceId][cmdIndex].status === PENDING
TimerGuard(queue, cmdIndex) == cmdIndex # 0 /\ queue[cmdIndex].status = PENDING

TimeoutCallback(k) ==
  LET timer == timers[k]
      d == timer.deviceId
      queue == pendingCommands[d]
      cmdIndex == FindIndex(queue, timer.id)
  IN /\ k \in DOMAIN timers
     /\ timer.state = "armed"
     /\ now >= timer.due
     /\ timers' = [timers EXCEPT ![k].state = "fired"]
     /\ IF TimerGuard(queue, cmdIndex)
          THEN /\ pendingCommands' =
                    [pendingCommands EXCEPT ![d][cmdIndex] = MarkTimeout(@, now, timer.rev)]
               /\ emitted' = <<Event("commandTimeout", d, <<pendingCommands'[d][cmdIndex]>>)>>
          ELSE /\ emitted' = <<>>
               /\ UNCHANGED pendingCommands
     /\ UNCHANGED <<now, deviceStates, created, nextCleanup, deliveries>>
     /\ UNCHANGED <<sensorData, historicalData, ingested, rooms, lightBefore>>

----------------------------------------------------------------------------
(* GET /get-commands/:deviceId *)

\* deviceStates[deviceId] || {}
EmptyDeviceState ==
  [light |-> "undefined", lastWatered |-> Undefined, lastNutrients |-> Undefined,
   lastUpdated |-> Undefined, connectionStatus |-> "undefined", lastSeen |-> Undefined]

\* mutant of RecordSeen: the device is marked connected, its last-seen time is not set
RecordSeenNoStamp(states, d, t) ==
  Put(states, d,
      [(IF d \in DOMAIN states THEN states[d] ELSE EmptyDeviceState)
         EXCEPT !.connectionStatus = "connected"])

\* connectionStatus = 'connected'; lastSeen = now, on deviceStates[deviceId] || {}
RecordSeen(states, d, t) ==
  Put(states, d,
      [(IF d \in DOMAIN states THEN states[d] ELSE EmptyDeviceState)
         EXCEPT !.connectionStatus = "connected", !.lastSeen = t])

\* mutants of MarkDelivered: the status is not set; the completion time is not set
MarkDeliveredNoStatus(c, t) == [c EXCEPT !.completedAt = t]
MarkDeliveredNoStamp(c, t) == [c EXCEPT !.status = COMPLETED]

\* c.status = COMPLETED; c.completedAt = now, on a command handed to the device
MarkDelivered(c, t) == [c EXCEPT !.status = COMPLETED, !.completedAt = t]

\* mutant of PendingOf: the filter is forgotten
PendingOfUnfiltered(queue) == queue

\* commands.filter(c => c.status === PENDING)
PendingOf(queue) == SelectSeq(queue, IsPending)

\* the queue after pending.forEach(...): the filtered objects are the queue's own
DrainQueue(queue, t) ==
  [i \in 1..Len(queue) |-> IF IsPending(queue[i]) THEN MarkDelivered(queue[i], t) ELSE queue[i]]

\* what the device is sent for one command
FormatCommand(c) ==
  [command |-> c.command,
   value |-> IF c.command \in ActuatorOnKinds THEN 1 ELSE 0,
   duration |-> CommandDuration(c.duration)]

\* pendingCommands[deviceId] || []
QueueOf(d) == IF d \in DOMAIN pendingCommands THEN pendingCommands[d] ELSE <<>>

\* the command objects a poll for d hands over, and the body it answers with
GetCommandsPending(d) == PendingOf(QueueOf(d))
GetCommandsBody(d) ==
  [i \in 1..Len(GetCommandsPending(d)) |-> FormatCommand(GetCommandsPending(d)[i])]

GetCommands(d) ==
  LET pending == GetCommandsPending(d)
      processed == [i \in 1..Len(pending) |-> MarkDelivered(pending[i], now)]
  IN /\ deviceStates' = RecordSeen(deviceStates, d, now)
     /\ pendingCommands' =
          IF d \in DOMAIN pendingCommands
            THEN [pendingCommands EXCEPT ![d] = DrainQueue(@, now)]
            ELSE pendingCommands
     /\ deliveries' =
          [u \in DOMAIN deliveries |->
             IF \E i \in 1..Len(pending) : pending[i].uid = u
               THEN deliveries[u] + 1 ELSE deliveries[u]]
     /\ emitted' =
          IF Len(pending) > 0
            THEN <<Event("commandsProcessed", d, processed)>>
            ELSE <<>>
     /\ UNCHANGED <<now, timers, created, nextCleanup>>
     /\ UNCHANGED <<sensorData, historicalData, ingested, rooms, lightBefore>>

\* part_003: deviceStates[deviceId].connected = true; lastSeen = now
MarkConnected(state, t) == [Put(state, "connected", "true") EXCEPT !.lastSeen = t]

\* part_003, GET /get-commands/:deviceId: the device state is written without the
\* `|| {}` of server.js
PushGetCommands(d) ==
  LET pending == GetCommandsPending(d)
      processed == [i \in 1..Len(pending) |-> MarkDelivered(pending[i], now)]
  IN IF d \notin DOMAIN deviceStates
       THEN \* TypeError on deviceStates[deviceId].connected, caught: 500
            Rejected
       ELSE /\ deviceStates' = [deviceStates EXCEPT ![d] = MarkConnected(@, now)]
            /\ pendingCommands' =
                 IF d \in DOMAIN pendingCommands
                   THEN [pendingCommands EXCEPT ![d] = DrainQueue(@, now)]
                   ELSE pendingCommands
            /\ deliveries' =
                 [u \in DOMAIN deliveries |->
                    IF \E i \in 1..Len(pending) : pending[i].uid = u
                      THEN deliveries[u] + 1 ELSE deliveries[u]]
            /\ emitted' =
                 IF Len(pending) > 0
                   THEN <<Event("commandsProcessed", d, processed)>>
                   ELSE <<>>
            /\ UNCHANGED <<now, timers, created, nextCleanup>>
            /\ UNCHANGED <<sensorData, historicalData, ingested, rooms, lightBefore>>

----------------------------------------------------------------------------
(* part_003, socket event deviceConnect *)

DeviceConnect(d) ==
  LET pending == GetCommandsPending(d)
  IN IF d \notin DOMAIN devicePlantMap THEN Rejected
     ELSE /\ rooms' = rooms \cup {d}
          /\ deviceStates' = [deviceStates EXCEPT ![d] = MarkConnected(@, now)]
          /\ deliveries' =
               [u \in DOMAIN deliveries |->
                  IF \E i \in 1..Len(pending) : pending[i].uid = u
                    THEN deliveries[u] + 1 ELSE deliveries[u]]
          /\ emitted' =
               IF Len(QueueOf(d)) > 0
                 THEN <<Event("pendingCommands", d, pending)>>
                 ELSE <<>>
          /\ UNCHANGED <<now, pendingCommands, timers, created, nextCleanup>>
          /\ UNCHANGED <<sensorData, historicalData, ingested, lightBefore>>

----------------------------------------------------------------------------
(* Outcome reports *)

\* mutant of ClearTimeout: every armed timer is cancelled
ClearTimeoutAll(ts, ref) ==
  [k \in DOMAIN ts |-> IF ts[k].state = "armed" THEN [ts[k] EXCEPT !.state = "cleared"] ELSE ts[k]]

\* clearTimeout: cancels an armed timer, no effect on a fired or cleared one
ClearTimeout(ts, ref) ==
  IF ref # NoTimer /\ ts[ref].state = "armed" THEN [ts EXCEPT ![ref].state = "cleared"] ELSE ts

\* socket 'commandCompleted': status and completedAt are assigned whatever the status was
ReportOutcome(c, success, t) ==
  [c EXCEPT !.status = IF success THEN COMPLETED ELSE FAILED, !.completedAt = t]

CommandCompleted(d, commandId, success) ==
  LET cmdIndex == IF d \in DOMAIN pendingCommands THEN FindIndex(pendingCommands[d], commandId) ELSE 0
  IN /\ IF cmdIndex # 0
          THEN /\ pendingCommands' =
                    [pendingCommands EXCEPT ![d][cmdIndex] = ReportOutcome(@, success, now)]
               /\ timers' = ClearTimeout(timers, pendingCommands[d][cmdIndex].timeoutRef)
               /\ emitted' = <<Event("commandUpdate", d, <<pendingCommands'[d][cmdIndex]>>)>>
          ELSE /\ emitted' = <<>>
               /\ UNCHANGED <<pendingCommands, timers>>
     /\ UNCHANGED <<now, deviceStates, created, nextCleanup, deliveries>>
     /\ UNCHANGED <<sensorData, historicalData, ingested, rooms, lightBefore>>

\* what the socket handler lets the reporting device know: the broadcast of the
\* updated command; it has no acknowledgement and no branch for a command it cannot find
CommandCompletedReply(d, commandId) ==
  LET cmdIndex == IF d \in DOMAIN pendingCommands THEN FindIndex(pendingCommands[d], commandId) ELSE 0
  IN IF cmdIndex # 0 THEN "commandUpdate" ELSE "none"

\* the status and error of the answer of POST /command-completed
PostCommandCompletedReply(d, commandId) ==
  IF d \notin DOMAIN pendingCommands THEN "404 Device not found"
  ELSE IF FindIndex(pendingCommands[d], commandId) = 0 THEN "404 Command not found"
  ELSE IF /\ pendingCommands[d][FindIndex(pendingCommands[d], commandId)].command
               \in {"water_plant", "add_nutrients"}
          /\ d \notin DOMAIN deviceStates
         THEN "500"
  ELSE "200 success"

NotFound ==
  /\ emitted' = <<>>
  /\ UNCHANGED <<now, pendingCommands, deviceStates, timers, created, nextCleanup, deliveries>>
  /\ UNCHANGED <<sensorData, historicalData, ingested, rooms, lightBefore>>

\* POST /command-completed: the state update made on actual completion
ApplyCommandCompleted(state, command, t) ==
  IF command = "water_plant" THEN [state EXCEPT !.lastWatered = t]
  ELSE IF command = "add_nutrients" THEN [state EXCEPT !.lastNutrients = t]
  ELSE state

PostCommandCompleted(d, commandId) ==
  LET commandIndex == IF d \in DOMAIN pendingCommands THEN FindIndex(pendingCommands[d], commandId) ELSE 0
      completedCommand == [pendingCommands[d][commandIndex]
                             EXCEPT !.status = COMPLETED, !.completedAt = now]
      touches == completedCommand.command \in {"water_plant", "add_nutrients"}
  IN IF commandIndex = 0 THEN NotFound
     ELSE /\ pendingCommands' = [pendingCommands EXCEPT ![d][commandIndex] = completedCommand]
          /\ IF touches /\ d \notin DOMAIN deviceStates
               THEN \* TypeError on deviceStates[deviceId].lastWatered: 500, nothing emitted
                    /\ emitted' = <<>>
                    /\ UNCHANGED deviceStates
               ELSE /\ deviceStates' =
                         IF touches
                           THEN [deviceStates EXCEPT
                                   ![d] = ApplyCommandCompleted(@, completedCommand.command, now)]
                           ELSE deviceStates
                    /\ emitted' = <<Event("commandCompleted", d, <<completedCommand>>)>>
          /\ UNCHANGED <<now, timers, created, nextCleanup, deliveries>>
          /\ UNCHANGED <<sensorData, historicalData, ingested, rooms, lightBefore>>

\* POST /command-failed: revert the predictive light change
ApplyCommandFailed(state, command) ==
  IF command = "light_on" THEN [state EXCEPT !.light = "false"]
  ELSE IF command = "light_off" THEN [state EXCEPT !.light = "true"]
  ELSE state

PostCommandFailed(d, commandId, error) ==
  LET commandIndex == IF d \in DOMAIN pendingCommands THEN FindIndex(pendingCommands[d], commandId) ELSE 0
      failedCommand == [pendingCommands[d][commandIndex]
                          EXCEPT !.status = FAILED, !.error = error, !.completedAt = now]
      touches == failedCommand.command \in {"light_on", "light_off"}
  IN IF commandIndex = 0 THEN NotFound
     ELSE /\ pendingCommands' = [pendingCommands EXCEPT ![d][commandIndex] = failedCommand]
          /\ IF touches /\ d \notin DOMAIN deviceStates
               THEN /\ emitted' = <<>>
                    /\ UNCHANGED deviceStates
               ELSE /\ deviceStates' =
                         IF touches
                           THEN [deviceStates EXCEPT
                                   ![d] = ApplyCommandFailed(@, failedCommand.command)]
                           ELSE deviceStates
                    /\ emitted' = <<Event("commandFailed", d, <<failedCommand>>)>>
          /\ UNCHANGED <<now, timers, created, nextCleanup, deliveries>>
          /\ UNCHANGED <<sensorData, historicalData, ingested, rooms, lightBefore>>

----------------------------------------------------------------------------
(* The periodic cleanup (setInterval, every 30 minutes) *)

\* mutant of ShouldKeep: only the age decides
ShouldKeepRecent(command, t) == command.timestamp > t - Retention

\* commandTime > oneHourAgo || command.status === PENDING
ShouldKeep(command, t) == command.timestamp > t - Retention \/ command.status = PENDING

SweepQueue(queue, t) ==
  LET Keep(c) == ShouldKeep(c, t) IN SelectSeq(queue, Keep)

RECURSIVE ClearRemoved(_, _, _, _)
\* clearTimeout(command.timeoutRef) for every command of the queue that is not kept
ClearRemoved(ts, queue, i, t) ==
  IF i > Len(queue) THEN ts
  ELSE ClearRemoved(IF ShouldKeep(queue[i], t) THEN ts ELSE ClearTimeout(ts, queue[i].timeoutRef),
                    queue, i + 1, t)

RECURSIVE ClearAllRemoved(_, _, _)
ClearAllRemoved(ts, ds, t) ==
  IF ds = {} THEN ts
  ELSE LET d == CHOOSE x \in ds : TRUE
       IN ClearAllRemoved(ClearRemoved(ts, pendingCommands[d], 1, t), ds \ {d}, t)

\* mutant of IsStale: a device last seen exactly one hour ago counts as stale
IsStaleInclusive(state, t) ==
  /\ state.lastSeen \notin {Null, Undefined}
  /\ state.lastSeen <= t - Retention

\* lastSeen set and lastSeen < oneHourAgo
IsStale(state, t) ==
  /\ state.lastSeen \notin {Null, Undefined}
  /\ state.lastSeen < t - Retention

MarkStaleIfExpired(state, t) ==
  IF IsStale(state, t) THEN [state EXCEPT !.connectionStatus = "disconnected"] ELSE state

\* mutant of SweepDeviceStates: the entries of stale devices are dropped
SweepDeviceStatesDropStale(states, t) ==
  [d \in {e \in DOMAIN states : ~IsStale(states[e], t)} |-> states[d]]

\* Object.keys(deviceStates).forEach(...)
SweepDeviceStates(states, t) == [d \in DOMAIN states |-> MarkStaleIfExpired(states[d], t)]

Cleanup ==
  /\ now >= nextCleanup
  /\ nextCleanup' = now + CleanupInterval
  /\ pendingCommands' = [d \in DOMAIN pendingCommands |-> SweepQueue(pendingCommands[d], now)]
  /\ timers' = ClearAllRemoved(timers, DOMAIN pendingCommands, now)
  /\ deviceStates' = SweepDeviceStates(deviceStates, now)
  /\ emitted' = <<>>
  /\ UNCHANGED <<now, created, deliveries>>
  /\ UNCHANGED <<sensorData, historicalData, ingested, rooms, lightBefore>>

----------------------------------------------------------------------------
(* POST /update *)

\* undefined, for a field whose values are modelled by strings
NoStatus == "undefined"

\* the body's data field: sample stands for the sensor values, ledStatus is the light
\* status the device reports, NoStatus when the reading carries none
Reading(sample, ledStatus) == [sample |-> sample, ledStatus |-> ledStatus]

\* a reading in which the device put a timestamp of its own clock
DeviceClock == 42
DeviceStampedReading(sample, ledStatus) ==
  [sample |-> sample, ledStatus |-> ledStatus, timestamp |-> DeviceClock]

\* a body without a data field
NoData == [missing |-> TRUE]

\* devicePlantMap[deviceId] || 'unknown'
PlantTypeOf(d) == IF d \in DOMAIN devicePlantMap THEN devicePlantMap[d] ELSE "unknown"

\* historicalData[plantType], [] when the group has no history yet
HistoryOf(history, plantType) ==
  IF plantType \in DOMAIN history THEN history[plantType] ELSE <<>>

\* the device state created by the first reading of a device that has none
FirstSeenDeviceState(t) ==
  [light |-> "false", lastWatered |-> Null, lastNutrients |-> Null, lastUpdated |-> t,
   connectionStatus |-> "connected", lastSeen |-> t]

\* connectionStatus = 'connected'; lastSeen = now, or the new entry
TouchDeviceState(states, d, t) ==
  IF d \in DOMAIN states
    THEN [states[d] EXCEPT !.connectionStatus = "connected", !.lastSeen = t]
    ELSE FirstSeenDeviceState(t)

\* mutant of ApplyTelemetry: the reported light status is not taken over
ApplyTelemetryKeepLight(state, data, t) == [state EXCEPT !.lastUpdated = t]

\* if (data.ledStatus !== undefined) light = data.ledStatus; lastUpdated = now
ApplyTelemetry(state, data, t) ==
  [(IF data.ledStatus # NoStatus THEN [state EXCEPT !.light = data.ledStatus] ELSE state)
     EXCEPT !.lastUpdated = t]

\* { ...data, timestamp }
StampedReading(data, t) ==
  [sample |-> data.sample, ledStatus |-> data.ledStatus, timestamp |-> t]

\* { ...data, timestamp, deviceId }
TimestampedData(data, t, d) ==
  [sample |-> data.sample, ledStatus |-> data.ledStatus, timestamp |-> t, deviceId |-> d]

\* mutant of KeepLast: the first n elements are kept
KeepFirst(arr, n) == SubSeq(arr, 1, n)

\* arr.slice(-n)
KeepLast(arr, n) ==
  IF Len(arr) > n THEN SubSeq(arr, Len(arr) - n + 1, Len(arr)) ELSE arr

\* mutant of TrimHistory: the history is never cut
TrimNothing(history) == history

\* if (length > 100) history = history.slice(-100)
TrimHistory(history) ==
  IF Len(history) > HistoryCapacity THEN KeepLast(history, HistoryCapacity) ELSE history

\* mutant of ShiftHistory: pop() in place of shift(), the newest reading is dropped
ShiftHistoryPop(history) ==
  IF Len(history) > HistoryCapacity THEN SubSeq(history, 1, Len(history) - 1) ELSE history

\* if (length > 100) history.shift()
ShiftHistory(history) ==
  IF Len(history) > HistoryCapacity THEN Tail(history) ELSE history

Update(d, data) ==
  LET plantType == PlantTypeOf(d)
      timestampedData == TimestampedData(data, now, d)
  IN IF d = Missing \/ data = NoData THEN Rejected
     ELSE /\ deviceStates' =
               Put(deviceStates, d, ApplyTelemetry(TouchDeviceState(deviceStates, d, now), data, now))
          /\ sensorData' = Put(sensorData, d, StampedReading(data, now))
          /\ historicalData' =
               Put(historicalData, plantType,
                   TrimHistory(Append(HistoryOf(historicalData, plantType), timestampedData)))
          /\ ingested' = [ingested EXCEPT ![d] = @ + 1]
          /\ emitted' = <<Event("dataUpdate", d, <<timestampedData>>),
                          Event("deviceUpdate", d, <<timestampedData>>)>>
          /\ UNCHANGED <<now, pendingCommands, timers, created, nextCleanup, deliveries, rooms, lightBefore>>

\* part_000: no device state is created, the reading is stored as it came
LegacyUpdate(d, data) ==
  LET plantType == PlantTypeOf(d)
      timestamped == StampedReading(data, now)
  IN IF d = Missing \/ data = NoData THEN Rejected
     ELSE /\ sensorData' = Put(sensorData, d, data)
          /\ ingested' = [ingested EXCEPT ![d] = @ + 1]
          /\ IF d \notin DOMAIN deviceStates
               THEN \* TypeError on deviceStates[deviceId].lastUpdated, caught: 500
                    /\ emitted' = <<>>
                    /\ UNCHANGED <<deviceStates, historicalData>>
               ELSE /\ deviceStates' =
                         [deviceStates EXCEPT ![d] = ApplyTelemetry(@, data, now)]
                    /\ historicalData' =
                         Put(historicalData, plantType,
                             ShiftHistory(Append(HistoryOf(historicalData, plantType),
                                                 timestamped)))
                    /\ emitted' = <<Event("dataUpdate", d, <<data>>)>>
          /\ UNCHANGED <<now, pendingCommands, timers, created, nextCleanup, deliveries, rooms, lightBefore>>

----------------------------------------------------------------------------
(* server.js: the operator, the polling device, the timers and the cleanup *)

\* operator requests of the lifecycle runs: value and duration left to their defaults
Submit ==
  \E d \in RequestDevices \cup {Missing}, command \in LifecycleKinds \cup {Missing} :
    SendCommand(d, command, Undefined, Undefined)

Poll == \E d \in RequestDevices : GetCommands(d)

Fire == \E k \in DOMAIN timers : TimeoutCallback(k)

Next ==
  \/ Tick
  \/ Submit
  \/ Poll
  \/ Fire
  \/ Cleanup

Spec == Init /\ [][Next]_vars

\* Node runs a due timer callback, and the clock advances
FairSpec == Spec /\ WF_vars(Tick) /\ \A k \in 1..MaxCommands : WF_vars(TimeoutCallback(k))

----------------------------------------------------------------------------
(* part_003, second server: push delivery and the device's outcome reports *)

PushSubmit ==
  \E d \in RequestDevices \cup {Missing}, command \in LifecycleKinds \cup {Missing} :
    PushSendCommand(d, command, Undefined, Undefined)

ReportSocket ==
  \E d \in RequestDevices, commandId \in Instants \cup {UnknownId}, success \in BOOLEAN :
    CommandCompleted(d, commandId, success)

SocketNext ==
  \/ Tick
  \/ PushSubmit
  \/ Fire
  \/ ReportSocket

SocketSpec == Init /\ [][SocketNext]_vars

----------------------------------------------------------------------------
(* part_000: the operator's requests to the revision without the kind check, on the  *)
(* full range of kinds, values and durations                                        *)

LegacySubmit ==
  \E d \in RequestDevices \cup {Missing}, command \in RequestKinds \cup {Missing},
     value \in RequestValues, duration \in RequestDurations :
    /\ created < MaxSubmits
    /\ LegacySendCommand(d, command, value, duration)

LegacyNext ==
  \/ Tick
  \/ LegacySubmit

LegacySpec == Init /\ [][LegacyNext]_vars

----------------------------------------------------------------------------
(* server.js: the operator's requests on the full range of kinds, values and       *)
(* durations                                                                        *)

RequestSubmit ==
  \E d \in RequestDevices \cup {Missing}, command \in RequestKinds \cup {Missing},
     value \in RequestValues, duration \in RequestDurations :
    /\ created < MaxSubmits
    /\ SendCommand(d, command, value, duration)

RequestNext ==
  \/ Tick
  \/ RequestSubmit

RequestSpec == Init /\ [][RequestNext]_vars

----------------------------------------------------------------------------
(* server.js: one device streams readings, the others send a few *)

StreamDevice == "esp32_9"
HistoryDevices == {"esp32_1", "esp32_8", "esp32_9"}

\* the other devices send their few readings once the stream has nearly filled the history
MayIngest(d, stream) ==
  IF d = stream THEN ingested[d] < MaxIngests
  ELSE ingested[d] < MaxOtherIngests /\ ingested[stream] >= HistoryCapacity - 1

\* the devices number their readings
HistoryIngest ==
  \E d \in HistoryDevices :
    /\ MayIngest(d, StreamDevice)
    /\ Update(d, Reading(ingested[d] + 1, NoStatus))

BadUpdate == \E d \in {Missing, StreamDevice} : Update(d, NoData)

HistoryNext ==
  \/ HistoryIngest
  \/ BadUpdate

HistorySpec == Init /\ [][HistoryNext]_vars

----------------------------------------------------------------------------
(* part_000: the same runs, streamed by a device of devicePlantMap *)

LegacyStreamDevice == "esp32_1"
LegacyHistoryDevices == {"esp32_1", "esp32_2", "esp32_9"}

\* every device of these runs has its own group, or is refused: they send at any time
LegacyMayIngest(d) ==
  ingested[d] < (IF d = LegacyStreamDevice THEN MaxIngests ELSE MaxOtherIngests)

LegacyHistoryIngest ==
  \E d \in LegacyHistoryDevices :
    /\ LegacyMayIngest(d)
    /\ LegacyUpdate(d, Reading(ingested[d] + 1, NoStatus))

LegacyBadUpdate == \E d \in {Missing, LegacyStreamDevice} : LegacyUpdate(d, NoData)

LegacyHistoryNext ==
  \/ LegacyHistoryIngest
  \/ LegacyBadUpdate

LegacyHistorySpec == Init /\ [][LegacyHistoryNext]_vars

----------------------------------------------------------------------------
(* server.js: the operator switches the light and the devices report its status *)

LightKinds == {"light_on", "light_off"}
LedStatuses == {NoStatus, "true", "false"}
LightDevices == {"esp32_1", "esp32_9"}

LightSubmit ==
  \E d \in LightDevices, command \in LightKinds :
    /\ created < MaxSubmits
    /\ SendCommand(d, command, Undefined, Undefined)

LightReport ==
  \E d \in LightDevices, ledStatus \in LedStatuses :
    /\ ingested["esp32_1"] + ingested["esp32_9"] < MaxReadings
    /\ Update(d, Reading(ingested[d] + 1, ledStatus))

TelemetryNext ==
  \/ Tick
  \/ LightSubmit
  \/ LightReport

TelemetrySpec == Init /\ [][TelemetryNext]_vars

----------------------------------------------------------------------------
(* part_003, second server: the operator switches the light, the device reports the *)
(* outcome                                                                          *)

PushLightSubmit ==
  \E d \in LightDevices, command \in LightKinds :
    /\ created < MaxSubmits
    /\ PushSendCommand(d, command, Undefined, Undefined)

SocketLightNext ==
  \/ Tick
  \/ PushLightSubmit
  \/ Fire
  \/ ReportSocket

SocketLightSpec == Init /\ [][SocketLightNext]_vars

----------------------------------------------------------------------------
(* io.on('connection'): the snapshot sent to an observer that joins *)

\* acc[key] = pendingCommands[key].filter(cmd => cmd.status === PENDING), for every key
PendingByDevice(queues) == [d \in DOMAIN queues |-> PendingOf(queues[d])]

\* server.js: initData
InitData ==
  [sensorData |-> sensorData, deviceStates |-> deviceStates,
   pendingCommands |-> PendingByDevice(pendingCommands), timestamp |-> now]

\* part_000: { sensorData, deviceStates, pendingCommands }
LegacyInitData ==
  [sensorData |-> sensorData, deviceStates |-> deviceStates,
   pendingCommands |-> pendingCommands]

\* socket.emit('init', data)
InitEvent(data) == [event |-> "init", data |-> data]

Joined(data) ==
  /\ emitted' = <<InitEvent(data)>>
  /\ UNCHANGED <<now, pendingCommands, deviceStates, timers, created, nextCleanup, deliveries>>
  /\ UNCHANGED <<sensorData, historicalData, ingested, rooms, lightBefore>>

Connection == Joined(InitData)

\* socket.on('disconnect'): a log line
Disconnect ==
  /\ emitted' = <<>>
  /\ UNCHANGED <<now, pendingCommands, deviceStates, timers, created, nextCleanup, deliveries>>
  /\ UNCHANGED <<sensorData, historicalData, ingested, rooms, lightBefore>>

\* mutant of RequestCommand: the requested command is queued like a submitted one
RequestCommandQueued(d, command, value, duration) == SendCommand(d, command, value, duration)

\* socket.on('requestCommand'): the request is broadcast to all clients, or answered
\* with commandError on the socket
RequestCommand(d, command, value, duration) ==
  /\ emitted' =
       IF d = Missing \/ command = Missing
         THEN <<[event |-> "commandError", deviceId |-> d, command |-> command]>>
         ELSE <<[event |-> "commandRequested", deviceId |-> d, command |-> command,
                 value |-> value, duration |-> CommandDuration(duration), timestamp |-> now]>>
  /\ UNCHANGED <<now, pendingCommands, deviceStates, timers, created, nextCleanup, deliveries>>
  /\ UNCHANGED <<sensorData, historicalData, ingested, rooms, lightBefore>>

LegacyConnection == Joined(LegacyInitData)

\* server.js: operator, polling device, telemetry, timers and a joining observer
JoinSubmit ==
  \E d \in RequestDevices, command \in LifecycleKinds :
    /\ created < MaxSubmits
    /\ SendCommand(d, command, Undefined, Undefined)

JoinIngest ==
  \E d \in LightDevices :
    /\ ingested["esp32_1"] + ingested["esp32_9"] < MaxReadings
    /\ Update(d, Reading(ingested[d] + 1, NoStatus))

JoinNext ==
  \/ Tick
  \/ JoinSubmit
  \/ Poll
  \/ Fire
  \/ JoinIngest
  \/ Connection

JoinSpec == Init /\ [][JoinNext]_vars

\* part_000: operator, timers and a joining observer
LegacyJoinSubmit ==
  \E d \in RequestDevices, command \in LifecycleKinds :
    LegacySendCommand(d, command, Undefined, Undefined)

LegacyJoinNext ==
  \/ Tick
  \/ LegacyJoinSubmit
  \/ Fire
  \/ LegacyConnection

LegacyJoinSpec == Init /\ [][LegacyJoinNext]_vars

----------------------------------------------------------------------------
(* server.js: devices that poll and send readings, and the periodic cleanup *)

ConnectivityDevices == {"esp32_1", "esp32_9"}

SeenPoll == \E d \in ConnectivityDevices : GetCommands(d)

SeenIngest ==
  \E d \in ConnectivityDevices :
    /\ ingested["esp32_1"] + ingested["esp32_9"] < MaxReadings
    /\ Update(d, Reading(ingested[d] + 1, NoStatus))

ConnectivityNext ==
  \/ Tick
  \/ SeenPoll
  \/ SeenIngest
  \/ Cleanup

ConnectivitySpec == Init /\ [][ConnectivityNext]_vars

----------------------------------------------------------------------------
(* part_003: the operator, and a device that connects its socket and polls *)

DeliverySubmit ==
  \E d \in RequestDevices, command \in LifecycleKinds :
    PushSendCommand(d, command, Undefined, Undefined)

\* the device connects while none of its pending commands has been handed over
\* MaxHandovers times
DeliveryConnect ==
  \E d \in RequestDevices :
    /\ \A i \in 1..Len(GetCommandsPending(d)) :
         deliveries[GetCommandsPending(d)[i].uid] < MaxHandovers
    /\ DeviceConnect(d)

DeliveryPoll == \E d \in RequestDevices : PushGetCommands(d)

DeliveryNext ==
  \/ Tick
  \/ DeliverySubmit
  \/ DeliveryConnect
  \/ DeliveryPoll
  \/ Fire

DeliverySpec == Init /\ [][DeliveryNext]_vars

----------------------------------------------------------------------------
(* Every handler that touches a queue: the routes of server.js and the outcome report *)
(* of part_003                                                                       *)

QueueKinds == {"water_plant"}
QueueDevices == {"esp32_1"}

QueueSubmit ==
  \E d \in QueueDevices, command \in QueueKinds :
    SendCommand(d, command, Undefined, Undefined)

QueuePoll == \E d \in QueueDevices : GetCommands(d)

QueueReport ==
  \E d \in QueueDevices, commandId \in Instants, success \in BOOLEAN :
    CommandCompleted(d, commandId, success)

QueueIngest ==
  \E d \in QueueDevices :
    /\ ingested[d] < MaxOtherIngests
    /\ Update(d, Reading(ingested[d] + 1, NoStatus))

QueueNext ==
  \/ Tick
  \/ QueueSubmit
  \/ QueuePoll
  \/ Fire
  \/ QueueReport
  \/ QueueIngest
  \/ Cleanup

QueueSpec == Init /\ [][QueueNext]_vars

----------------------------------------------------------------------------
(* server.js: requests on the full range of values, and the device that polls *)

ValueNext ==
  \/ Tick
  \/ RequestSubmit
  \/ Poll

ValueSpec == Init /\ [][ValueNext]_vars

----------------------------------------------------------------------------
(* part_001, second server: the operator, the timers and the device's outcome        *)
(* reports over HTTP                                                                 *)

HttpKinds == {"light_on", "light_off", "water_plant", "led"}

HttpSubmit ==
  \E d \in RequestDevices \cup {Missing}, command \in HttpKinds \cup {Missing} :
    HttpSendCommand(d, command, Undefined)

HttpCompleted ==
  \E d \in RequestDevices, commandId \in Instants \cup {UnknownId} :
    PostCommandCompleted(d, commandId)

HttpFailed ==
  \E d \in RequestDevices, commandId \in Instants \cup {UnknownId}, error \in ReportedErrors :
    PostCommandFailed(d, commandId, error)

HttpNext ==
  \/ Tick
  \/ HttpSubmit
  \/ Fire
  \/ HttpCompleted
  \/ HttpFailed

HttpSpec == Init /\ [][HttpNext]_vars

----------------------------------------------------------------------------
(* Readings with and without a timestamp of the device *)

StampDevices == {"esp32_1", "esp32_2", "esp32_9"}

Payloads(d) ==
  {Reading(ingested[d] + 1, NoStatus), DeviceStampedReading(ingested[d] + 1, NoStatus)}

MayStamp == ingested["esp32_1"] + ingested["esp32_2"] + ingested["esp32_9"] < MaxReadings

\* server.js
StampIngest ==
  \E d \in StampDevices : \E data \in Payloads(d) : MayStamp /\ Update(d, data)

StampNext ==
  \/ Tick
  \/ StampIngest

StampSpec == Init /\ [][StampNext]_vars

\* part_000
LegacyStampIngest ==
  \E d \in StampDevices : \E data \in Payloads(d) : MayStamp /\ LegacyUpdate(d, data)

LegacyStampNext ==
  \/ Tick
  \/ LegacyStampIngest

LegacyStampSpec == Init /\ [][LegacyStampNext]_vars

----------------------------------------------------------------------------
(* part_002: the simple server, POST /update and GET /sensor-data/:plantType *)

SimpleUpdate(d, data) ==
  LET plantType == PlantTypeOf(d)
      timestamped == StampedReading(data, now)
  IN IF d = Missing \/ data = NoData THEN Rejected
     ELSE /\ sensorData' = Put(sensorData, d, data)
          /\ historicalData' =
               Put(historicalData, plantType,
                   ShiftHistory(Append(HistoryOf(historicalData, plantType), timestamped)))
          /\ ingested' = [ingested EXCEPT ![d] = @ + 1]
          /\ emitted' = <<Event("dataUpdate", d, <<data>>)>>
          /\ UNCHANGED <<now, pendingCommands, deviceStates, timers, created, nextCleanup>>
          /\ UNCHANGED <<deliveries, rooms, lightBefore>>

\* Object.entries(devicePlantMap).filter(([_, pt]) => pt === plantType).map(([id]) => id)
DevicesOfPlantType(plantType) == {d \in DOMAIN devicePlantMap : devicePlantMap[d] = plantType}

\* the data object of GET /sensor-data/:plantType: the devices of the map that have a
\* latest reading
SensorDataOf(plantType) ==
  [d \in DevicesOfPlantType(plantType) \cap DOMAIN sensorData |-> sensorData[d]]

\* the answer of GET /sensor-data/:plantType: the data object, or 404 when it is empty
SensorDataReply(plantType) ==
  IF DOMAIN SensorDataOf(plantType) # {}
    THEN [status |-> "200", data |-> SensorDataOf(plantType)]
    ELSE [status |-> "404 No data found", data |-> SensorDataOf(plantType)]

SimpleIngest ==
  \E d \in StampDevices :
    MayStamp /\ SimpleUpdate(d, Reading(ingested[d] + 1, NoStatus))

SimpleNext ==
  \/ Tick
  \/ SimpleIngest

SimpleSpec == Init /\ [][SimpleNext]_vars

----------------------------------------------------------------------------
(* server.js with the outcome report of part_003: every operation of the gateway, *)
(* one command per run                                                             *)

GatewayObserver ==
  \/ Connection
  \/ Disconnect
  \/ \E d \in {"esp32_1", Missing}, command \in {"water_plant"} :
       RequestCommand(d, command, Undefined, Undefined)

\* a device that was not registered at start-up sends a reading
GatewayIngest ==
  \E d \in {"esp32_9"} :
    /\ ingested[d] < MaxOtherIngests
    /\ Update(d, Reading(ingested[d] + 1, NoStatus))

GatewayNext ==
  \/ Tick
  \/ JoinSubmit
  \/ Poll
  \/ Fire
  \/ ReportSocket
  \/ GatewayIngest
  \/ Cleanup
  \/ GatewayObserver

GatewaySpec == Init /\ [][GatewayNext]_vars

----------------------------------------------------------------------------
(* server.js with the outcome report of part_003: two devices with commands *)

\* each device is sent one command
FrameSubmit ==
  \E d \in RequestDevices :
    /\ d \notin DOMAIN pendingCommands
    /\ SendCommand(d, "water_plant", Undefined, Undefined)

\* the registered device polls; the other one reports outcomes and sends a reading
FramePoll == GetCommands("esp32_1")

FrameReport ==
  \E commandId \in Instants : CommandCompleted("esp32_9", commandId, FALSE)

FrameIngest ==
  /\ ingested["esp32_9"] < MaxOtherIngests
  /\ Update("esp32_9", Reading(ingested["esp32_9"] + 1, NoStatus))

FrameNext ==
  \/ Tick
  \/ FrameSubmit
  \/ FramePoll
  \/ Fire
  \/ FrameReport
  \/ FrameIngest

FrameSpec == Init /\ [][FrameNext]_vars

----------------------------------------------------------------------------
(* Properties *)

\* every command object held in some queue
AllCommands(queues) ==
  UNION {{queues[d][i] : i \in 1..Len(queues[d])} : d \in DOMAIN queues}

\* the queue index an outcome report for (d, commandId) resolves to, 0 for none
ReportTarget(d, commandId) ==
  IF d \in DOMAIN pendingCommands THEN FindIndex(pendingCommands[d], commandId) ELSE 0

OutcomeStatus(success) == IF success THEN COMPLETED ELSE FAILED

\* C1: once a command's status is completed, failed or timeout, no later operation
\* changes that status (the only transitions are pending -> completed, failed, timeout).
C1_TerminalIsFinal ==
  [][\A c \in AllCommands(pendingCommands) : \A c2 \in AllCommands(pendingCommands') :
       (c2.uid = c.uid /\ c.status # PENDING) => c2.status = c.status]_vars

\* C2: an outcome report repeated for a command that already carries that outcome
\* leaves the command as it was (same status, same completion time) and raises no
\* further notification.
C2_ReportIdempotent ==
  [][\A d \in RequestDevices, commandId \in Instants, success \in BOOLEAN :
       LET i == ReportTarget(d, commandId)
       IN (/\ i # 0
           /\ pendingCommands[d][i].status = OutcomeStatus(success)
           /\ CommandCompleted(d, commandId, success))
          => (pendingCommands'[d][i] = pendingCommands[d][i] /\ emitted' = <<>>)]_vars

\* C3: of a success report and a failure report for the same command, the one
\* processed first sets the final status; the second does not change it.
C3_FirstOutcomeWins ==
  [][\A d \in RequestDevices, commandId \in Instants, success \in BOOLEAN :
       LET i == ReportTarget(d, commandId)
       IN (/\ i # 0
           /\ pendingCommands[d][i].status = OutcomeStatus(~success)
           /\ CommandCompleted(d, commandId, success))
          => pendingCommands'[d][i].status = OutcomeStatus(~success)]_vars

\* C4: of an outcome report and the timeout of the same command, the first processed
\* wins: a report after the timeout leaves the status timeout, and the timeout
\* callback after a report leaves the status completed or failed.
C4_ReportTimeoutRace ==
  [][/\ \A d \in RequestDevices, commandId \in Instants, success \in BOOLEAN :
          LET i == ReportTarget(d, commandId)
          IN (/\ i # 0
              /\ pendingCommands[d][i].status = TIMEOUT
              /\ CommandCompleted(d, commandId, success))
             => pendingCommands'[d][i].status = TIMEOUT
     /\ \A k \in DOMAIN timers :
          TimeoutCallback(k) =>
            \A c \in AllCommands(pendingCommands) : \A c2 \in AllCommands(pendingCommands') :
              (c2.uid = c.uid /\ c.status \in {COMPLETED, FAILED}) => c2.status = c.status]_vars

\* whether command object u is in a queue with status pending
IsQueuedPending(u) ==
  \E c \in AllCommands(pendingCommands) : c.uid = u /\ c.status = PENDING

\* whether the timeout window of command object u ends within the modelled instants
WindowEndsInTime(u) ==
  \E c \in AllCommands(pendingCommands) :
    c.uid = u /\ c.timestamp + TimeoutWindow <= LastInstant

\* C5: every command appended by a submit that is neither reported nor polled
\* eventually leaves pending by its timeout, and no command is timed out before its
\* 5-minute window has elapsed.
C5_EventuallyTimesOut ==
  /\ [](\A c \in AllCommands(pendingCommands) :
          c.status = TIMEOUT => c.timeoutAt >= c.timestamp + TimeoutWindow)
  /\ \A u \in 1..MaxCommands :
       (IsQueuedPending(u) /\ WindowEndsInTime(u)) ~> ~IsQueuedPending(u)

\* C6: right after a poll for d, a second poll for d returns nothing, and no command
\* is ever returned by two polls.
C6_DrainExhaustive ==
  [][/\ \A d \in RequestDevices : GetCommands(d) => GetCommandsPending(d)' = <<>>
     /\ \A u \in DOMAIN deliveries' : deliveries'[u] <= 1]_vars

\* a poll has handed a command over, and the next poll of that device is empty
C6_Witness ==
  \E c \in AllCommands(pendingCommands) :
    /\ c.status = COMPLETED
    /\ deliveries[c.uid] = 1
    /\ GetCommandsPending(c.deviceId) = <<>>

\* C7: a poll for d returns exactly the commands of d's queue that are pending, each
\* once, in submission order, and no command of another device.
C7_PollReturnsPendingInOrder ==
  \A d \in RequestDevices :
    LET queue == QueueOf(d)
        pending == GetCommandsPending(d)
        body == GetCommandsBody(d)
    IN /\ \A i \in 1..Len(pending) :
            /\ pending[i].deviceId = d
            /\ pending[i].status = PENDING
            /\ \E j \in 1..Len(queue) : queue[j] = pending[i]
       /\ \A j \in 1..Len(queue) :
            queue[j].status = PENDING => \E i \in 1..Len(pending) : pending[i] = queue[j]
       /\ Len(pending) = Cardinality({j \in 1..Len(queue) : queue[j].status = PENDING})
       /\ \A i, k \in 1..Len(pending) : i < k => pending[i].uid < pending[k].uid
       /\ Len(body) = Len(pending)
       /\ \A i \in 1..Len(body) : body[i].command = pending[i].command

\* one poll has handed over two commands of the same device
C7_Witness ==
  \E d \in DOMAIN pendingCommands :
    /\ Len(pendingCommands[d]) = 2
    /\ \A i \in 1..2 :
         /\ pendingCommands[d][i].status = COMPLETED
         /\ deliveries[pendingCommands[d][i].uid] = 1
    /\ pendingCommands[d][1].completedAt = pendingCommands[d][2].completedAt
    /\ pendingCommands[d][1].timestamp < pendingCommands[d][2].timestamp

\* C8: a poll for d marks every command it returns completed, stamped with the time of
\* the poll, and changes no other command: not the terminal ones of d, not those of
\* another device.
C8_PollFrame ==
  [][\A d \in RequestDevices :
       GetCommands(d) =>
         /\ DOMAIN pendingCommands' = DOMAIN pendingCommands
         /\ \A e \in DOMAIN pendingCommands :
              /\ Len(pendingCommands'[e]) = Len(pendingCommands[e])
              /\ \A i \in 1..Len(pendingCommands[e]) :
                   IF e = d /\ pendingCommands[e][i].status = PENDING
                     THEN pendingCommands'[e][i] =
                            [pendingCommands[e][i] EXCEPT !.status = COMPLETED,
                                                          !.completedAt = now]
                     ELSE pendingCommands'[e][i] = pendingCommands[e][i]]_vars

\* a poll has completed one command of a device whose other command had timed out
C8_Witness ==
  \E d \in DOMAIN pendingCommands :
    \E i, j \in 1..Len(pendingCommands[d]) :
      /\ pendingCommands[d][i].status = TIMEOUT
      /\ pendingCommands[d][j].status = COMPLETED
      /\ deliveries[pendingCommands[d][j].uid] = 1
      /\ pendingCommands[d][j].completedAt >= pendingCommands[d][i].timeoutAt

\* C9: a submit whose kind is outside the closed set is rejected and changes nothing:
\* no queue, no device state, no timer, no notification.
C9_UnknownKindRejected ==
  [][\A d \in RequestDevices, command \in RequestKinds \ COMMAND_TYPES,
        value \in RequestValues, duration \in RequestDurations :
       (\/ SendCommand(d, command, value, duration)
        \/ LegacySendCommand(d, command, value, duration))
       => (UNCHANGED <<pendingCommands, deviceStates, timers>> /\ emitted' = <<>>)]_vars

\* C10: the value of the command a submit creates is the supplied value when one is
\* supplied (0 included), else 1 for light_on, water_pump, fert_pump and led and 0 for
\* light_off, water_plant and add_nutrients.
C10_CommandValue ==
  [][\A d \in RequestDevices, command \in COMMAND_TYPES,
        value \in RequestValues, duration \in RequestDurations :
       (/\ created' = created + 1
        /\ \/ SendCommand(d, command, value, duration)
           \/ LegacySendCommand(d, command, value, duration))
       => pendingCommands'[d][Len(pendingCommands'[d])].value =
            IF value # Undefined THEN value
            ELSE IF command \in {"light_on", "water_pump", "fert_pump", "led"} THEN 1
            ELSE 0]_vars

\* C11: the duration of the command a submit creates is 3000 when no duration is
\* supplied, and the supplied duration whenever one is supplied.
C11_CommandDuration ==
  [][\A d \in RequestDevices, command \in COMMAND_TYPES,
        value \in RequestValues, duration \in RequestDurations :
       (/\ created' = created + 1
        /\ SendCommand(d, command, value, duration))
       => pendingCommands'[d][Len(pendingCommands'[d])].duration =
            IF duration # Undefined THEN duration ELSE 3000]_vars

PlantTypes == {"lettuce", "spinach", "unknown"}

RECURSIVE SumIngested(_, _)
\* the number of readings the devices of ds that belong to plantType have sent
SumIngested(ds, plantType) ==
  IF ds = {} THEN 0
  ELSE LET d == CHOOSE x \in ds : TRUE
       IN (IF PlantTypeOf(d) = plantType THEN ingested[d] ELSE 0)
            + SumIngested(ds \ {d}, plantType)

GroupIngested(plantType) == SumIngested(TelemetryDevices, plantType)

Min(a, b) == IF a < b THEN a ELSE b

\* C12: in every reachable state the history of every group holds at most 100
\* readings, whatever the devices of the group have sent and in whatever order.
C12_HistoryBounded ==
  \A plantType \in DOMAIN historicalData : Len(historicalData[plantType]) <= 100

\* a group has received more than 100 readings, from two devices, and holds 100
C12_Witness ==
  \E plantType \in DOMAIN historicalData :
    /\ GroupIngested(plantType) > 100
    /\ Len(historicalData[plantType]) = 100
    /\ \E i, j \in 1..100 :
         historicalData[plantType][i].deviceId # historicalData[plantType][j].deviceId

\* C13: after n readings into a group its history is the most recent min(n, 100) of
\* them, oldest first: every ingest puts its reading last, keeps the readings before it
\* in their order and drops only the oldest; 150 readings of one device leave the
\* readings 51..150; an ingest leaves the history of every other group unchanged.
C13_HistoryIsMostRecent ==
  /\ [](\A plantType \in PlantTypes :
          Len(HistoryOf(historicalData, plantType)) = Min(GroupIngested(plantType), 100))
  /\ [][\A d \in TelemetryDevices :
          ingested'[d] = ingested[d] + 1 =>
            LET old == HistoryOf(historicalData, PlantTypeOf(d))
                new == HistoryOf(historicalData', PlantTypeOf(d))
                kept == Len(new) - 1
            IN /\ Len(new) = Min(Len(old) + 1, 100)
               /\ new[Len(new)].sample = ingested'[d]
               /\ new[Len(new)].deviceId = d
               /\ \A i \in 1..kept : new[i] = old[Len(old) - kept + i]
               /\ \A other \in PlantTypes \ {PlantTypeOf(d)} :
                    HistoryOf(historicalData', other) = HistoryOf(historicalData, other)]_vars
  /\ []((ingested[StreamDevice] = 150 /\ GroupIngested(PlantTypeOf(StreamDevice)) = 150) =>
          LET history == HistoryOf(historicalData, PlantTypeOf(StreamDevice))
          IN \A i \in 1..100 : history[i].sample = 50 + i)

\* one device has sent 150 readings into its group and another device one reading into
\* another group
C13_Witness ==
  /\ ingested[StreamDevice] = 150
  /\ GroupIngested("unknown") = 150
  /\ GroupIngested("lettuce") = 1
  /\ Len(historicalData["unknown"]) = 100
  /\ historicalData["unknown"][1].sample = 51
  /\ historicalData["unknown"][100].sample = 150
  /\ Len(historicalData["lettuce"]) = 1

\* C14: a sweep never removes a pending command, however old: every command that is
\* pending before the sweep is in its device's queue, unchanged, after it.
C14_SweepKeepsPending ==
  [][Cleanup =>
       \A d \in DOMAIN pendingCommands : \A i \in 1..Len(pendingCommands[d]) :
         pendingCommands[d][i].status = PENDING =>
           /\ d \in DOMAIN pendingCommands'
           /\ \E j \in 1..Len(pendingCommands'[d]) :
                pendingCommands'[d][j] = pendingCommands[d][i]]_vars

\* a sweep has run, and a pending command older than the retention window is queued
C14_Witness ==
  /\ nextCleanup > CleanupInterval
  /\ \E c \in AllCommands(pendingCommands) :
       /\ c.status = PENDING
       /\ c.timestamp + Retention < nextCleanup - CleanupInterval

\* C15: a sweep at time now removes from every queue exactly the commands that are
\* terminal and were created more than one hour before now, leaves no timer of a
\* removed command armed, and keeps the other commands in their order.
C15_SweepRemovesExactly ==
  [][Cleanup =>
       \A d \in DOMAIN pendingCommands :
         LET Removed(c) == c.status # PENDING /\ c.timestamp < now - Retention
             Kept(c) == ~Removed(c)
         IN /\ pendingCommands'[d] = SelectSeq(pendingCommands[d], Kept)
            /\ \A i \in 1..Len(pendingCommands[d]) :
                 LET c == pendingCommands[d][i]
                 IN (Removed(c) /\ c.timeoutRef # NoTimer) =>
                      timers'[c.timeoutRef].state # "armed"]_vars

\* the armed timers that were set for command c
ArmedTimersOf(c) ==
  {k \in DOMAIN timers : timers[k].state = "armed" /\ c.timeoutRef = k}

\* C16: every command has at most one outstanding timeout timer, and a command that is
\* completed or failed (by an outcome report or by a poll) has none.
C16_TimerCancelledOnTerminal ==
  \A c \in AllCommands(pendingCommands) :
    /\ Cardinality(ArmedTimersOf(c)) <= 1
    /\ c.status \in {COMPLETED, FAILED} => ArmedTimersOf(c) = {}

\* C17: a reading from a device that is not in the device-to-group map is accepted: it
\* becomes the device's latest reading, it is the last entry of the history of group
\* unknown, the device has a state entry afterwards, and the update is broadcast.
C17_UnmappedDeviceAccepted ==
  [][\A d \in TelemetryDevices \ DOMAIN devicePlantMap :
       ingested'[d] = ingested[d] + 1 =>
         /\ d \in DOMAIN sensorData'
         /\ sensorData'[d].sample = ingested'[d]
         /\ "unknown" \in DOMAIN historicalData'
         /\ historicalData'["unknown"][Len(historicalData'["unknown"])].sample = ingested'[d]
         /\ d \in DOMAIN deviceStates'
         /\ emitted' # <<>>]_vars

NotFoundReplies == {"404 Device not found", "404 Command not found"}

\* C18: an outcome report that names a command the device's queue does not hold, or a
\* device without a queue, is answered NotFound and changes no queue, no timer and no
\* device state.
C18_ReportNotFound ==
  [][\A d \in RequestDevices, commandId \in Instants \cup {UnknownId} :
       ReportTarget(d, commandId) = 0 =>
         /\ \A success \in BOOLEAN :
              CommandCompleted(d, commandId, success) =>
                /\ CommandCompletedReply(d, commandId) \in NotFoundReplies
                /\ UNCHANGED <<pendingCommands, timers, deviceStates>>
         /\ PostCommandCompleted(d, commandId) =>
              /\ PostCommandCompletedReply(d, commandId) \in NotFoundReplies
              /\ UNCHANGED <<pendingCommands, timers, deviceStates>>]_vars

\* C19: right after a successful submit for d, d's state shows light true for light_on
\* and led, light false for light_off, last-watered at the submission time for
\* water_plant and water_pump, last-nutrients at the submission time for add_nutrients
\* and fert_pump; its other fields and every other device's state are as before.
C19_PredictiveUpdate ==
  [][\A d \in RequestDevices, command \in COMMAND_TYPES :
       (/\ Len(timers') = Len(timers) + 1
        /\ \E value \in RequestValues, duration \in RequestDurations :
             SendCommand(d, command, value, duration))
       => /\ DOMAIN deviceStates' = DOMAIN deviceStates
          /\ \A e \in DOMAIN deviceStates \ {d} : deviceStates'[e] = deviceStates[e]
          /\ deviceStates'[d].light =
               IF command \in {"light_on", "led"} THEN "true"
               ELSE IF command = "light_off" THEN "false"
               ELSE deviceStates[d].light
          /\ deviceStates'[d].lastWatered =
               IF command \in {"water_plant", "water_pump"} THEN now
               ELSE deviceStates[d].lastWatered
          /\ deviceStates'[d].lastNutrients =
               IF command \in {"add_nutrients", "fert_pump"} THEN now
               ELSE deviceStates[d].lastNutrients
          /\ deviceStates'[d].lastUpdated = deviceStates[d].lastUpdated
          /\ deviceStates'[d].connectionStatus = deviceStates[d].connectionStatus
          /\ deviceStates'[d].lastSeen = deviceStates[d].lastSeen]_vars

\* a led command was submitted after process start: the light is on, nothing else moved
C19_Witness ==
  \E c \in AllCommands(pendingCommands) :
    /\ c.command = "led"
    /\ c.timestamp > 0
    /\ c.deviceId \in DOMAIN deviceStates
    /\ deviceStates[c.deviceId].light = "true"
    /\ deviceStates[c.deviceId].lastWatered = Null
    /\ deviceStates[c.deviceId].lastUpdated = 0

\* C20: right after a reading of d that carries a light status, d's projected light is
\* the reported status, whatever it was before; after a reading that carries none, the
\* projected light of a device that had a state is what it was.
C20_TelemetryOverridesLight ==
  [][\A d \in LightDevices, ledStatus \in LedStatuses :
       (/\ ingested'[d] = ingested[d] + 1
        /\ Update(d, Reading(ingested[d] + 1, ledStatus)))
       => /\ ledStatus # "undefined" => deviceStates'[d].light = ledStatus
          /\ (ledStatus = "undefined" /\ d \in DOMAIN deviceStates) =>
               deviceStates'[d].light = deviceStates[d].light]_vars

\* light_on was submitted, which predicts the light on, and the device then reported
\* the light off
C20_Witness ==
  \E c \in AllCommands(pendingCommands) :
    /\ c.command = "light_on"
    /\ c.deviceId \in DOMAIN sensorData
    /\ c.deviceId \in DOMAIN deviceStates
    /\ sensorData[c.deviceId].ledStatus = "false"
    /\ sensorData[c.deviceId].timestamp > c.timestamp
    /\ deviceStates[c.deviceId].light = "false"

\* C21: when a light_on command is reported failed the device's projected light goes
\* back to off, when a light_off command is reported failed it goes back to on; a
\* failure report leaves last-watered and last-nutrients as they were.
C21_FailureReverts ==
  [][\A d \in RequestDevices \cap DOMAIN deviceStates, commandId \in Instants :
       LET i == ReportTarget(d, commandId)
       IN (/\ i # 0
           /\ \/ CommandCompleted(d, commandId, FALSE)
              \/ \E error \in ReportedErrors : PostCommandFailed(d, commandId, error))
          => /\ deviceStates'[d].light =
                  IF pendingCommands[d][i].command = "light_on" THEN "false"
                  ELSE IF pendingCommands[d][i].command = "light_off" THEN "true"
                  ELSE deviceStates[d].light
             /\ deviceStates'[d].lastWatered = deviceStates[d].lastWatered
             /\ deviceStates'[d].lastNutrients = deviceStates[d].lastNutrients]_vars

\* C22: the commands created in one run have pairwise distinct identifiers, so that a
\* lookup by identifier in a queue resolves to the command the identifier was issued
\* for.
C22_DistinctIds ==
  /\ \A c1, c2 \in AllCommands(pendingCommands) : c1.uid # c2.uid => c1.id # c2.id
  /\ \A d \in DOMAIN pendingCommands : \A i \in 1..Len(pendingCommands[d]) :
       FindIndex(pendingCommands[d], pendingCommands[d][i].id) = i

\* C23: the snapshot sent to an observer when it joins contains, for every device
\* queue, exactly the commands that are pending at that moment, in queue order and
\* with no terminal command, and the current latest reading and projected state of
\* every device.
C23_SnapshotIsPending ==
  \A n \in 1..Len(emitted) :
    emitted[n].event = "init" =>
      LET data == emitted[n].data
      IN /\ DOMAIN data.pendingCommands = DOMAIN pendingCommands
         /\ \A d \in DOMAIN pendingCommands :
              data.pendingCommands[d] = SelectSeq(pendingCommands[d], IsPending)
         /\ data.sensorData = sensorData
         /\ data.deviceStates = deviceStates

\* C24: after a telemetry ingest or a poll for a device, that device is connected and
\* its last-seen time is the time of the call; the sweep run at time now marks a device
\* disconnected exactly when the device has a last-seen time and now minus that time is
\* more than one hour, and leaves the connectivity of every other device as it was.
C24_Connectivity ==
  [][/\ \A d \in ConnectivityDevices :
          (GetCommands(d) \/ Update(d, Reading(ingested[d] + 1, NoStatus)))
            => /\ d \in DOMAIN deviceStates'
               /\ deviceStates'[d].connectionStatus = "connected"
               /\ deviceStates'[d].lastSeen = now
     /\ Cleanup =>
          /\ DOMAIN deviceStates' = DOMAIN deviceStates
          /\ \A d \in DOMAIN deviceStates :
               /\ deviceStates'[d].lastSeen = deviceStates[d].lastSeen
               /\ deviceStates'[d].connectionStatus =
                    IF /\ deviceStates[d].lastSeen \notin {Null, Undefined}
                       /\ now - deviceStates[d].lastSeen > Retention
                      THEN "disconnected"
                      ELSE deviceStates[d].connectionStatus]_vars

\* a sweep has run that marked a device seen earlier as disconnected and left a device
\* seen within the hour connected
C24_Witness ==
  /\ nextCleanup > CleanupInterval
  /\ \E d1, d2 \in DOMAIN deviceStates :
       /\ deviceStates[d1].lastSeen \notin {Null, Undefined}
       /\ deviceStates[d1].connectionStatus = "disconnected"
       /\ deviceStates[d2].lastSeen \notin {Null, Undefined}
       /\ deviceStates[d2].lastSeen < now
       /\ deviceStates[d2].connectionStatus = "connected"

\* C25: each command is handed to its device at most once over its lifetime, counting
\* the poll, the push at submission and the hand-over of the pending commands when the
\* device connects.
C25_HandedOverAtMostOnce ==
  \A d \in DOMAIN pendingCommands : \A i \in 1..Len(pendingCommands[d]) :
    deliveries[pendingCommands[d][i].uid] <= 1

\* the commands in the queues that timer k was armed for
CommandsOfTimer(k) == {c \in AllCommands(pendingCommands) : c.timeoutRef = k}

\* C26: the timeout callback of a command changes state only if that command is still
\* in its queue with status pending; if the command is terminal or was removed by a
\* sweep, the callback changes no command and no device state and raises no timeout
\* notification.
C26_CallbackGuarded ==
  [][\A k \in DOMAIN timers :
       (TimeoutCallback(k) /\ ~(\E c \in CommandsOfTimer(k) : IsPending(c)))
         => /\ pendingCommands' = pendingCommands
            /\ deviceStates' = deviceStates
            /\ emitted' = <<>>]_vars

\* the callback of a command that a poll had completed has run, and the command is
\* still completed
C26_Witness ==
  \E k \in DOMAIN timers :
    /\ timers[k].state = "fired"
    /\ \E c \in CommandsOfTimer(k) : c.status = COMPLETED

\* C27: in every reachable state, every pending command in a queue has an armed
\* timeout timer.
C27_PendingHasTimer ==
  \A c \in AllCommands(pendingCommands) : IsPending(c) => ArmedTimersOf(c) # {}

\* the requests POST /send-command answers with an error: 400 for a missing field or an
\* unknown kind, 500 when the predictive update throws
SendCommandFails(d, command) ==
  \/ d = Missing \/ command = Missing
  \/ ~IsValidKind(command)
  \/ (TouchesDeviceState(command) /\ d \notin DOMAIN deviceStates)

\* C28: a submit that returns an error leaves every queue unchanged; a submit with a
\* valid kind for a device that has no device state entry either succeeds completely
\* (command queued, timer armed, command-issued broadcast) or appends nothing.
C28_FailedSubmitAppendsNothing ==
  [][\A d \in RequestDevices \cup {Missing}, command \in LifecycleKinds \cup {Missing} :
       SendCommand(d, command, Undefined, Undefined) =>
         /\ SendCommandFails(d, command) => pendingCommands' = pendingCommands
         /\ (d # Missing /\ IsValidKind(command) /\ d \notin DOMAIN deviceStates) =>
              \/ pendingCommands' = pendingCommands
              \/ /\ Len(timers') = Len(timers) + 1
                 /\ Len(emitted') = 1 /\ emitted'[1].event = "commandIssued"]_vars

\* every command of the queues is still in its queue, at the same place
QueuesKept ==
  \A d \in DOMAIN pendingCommands :
    /\ d \in DOMAIN pendingCommands'
    /\ Len(pendingCommands'[d]) >= Len(pendingCommands[d])
    /\ \A i \in 1..Len(pendingCommands[d]) :
         pendingCommands'[d][i].uid = pendingCommands[d][i].uid

\* C29: any two commands that are both in a device's queue are in the order in which
\* they were submitted; a command leaves a queue only through the sweep: poll, outcome
\* report, timeout firing, telemetry ingest and submit neither remove nor reorder the
\* entries of a queue.
C29_QueueOrder ==
  /\ [](\A d \in DOMAIN pendingCommands : \A i, j \in 1..Len(pendingCommands[d]) :
          i < j => pendingCommands[d][i].uid < pendingCommands[d][j].uid)
  /\ [][QueuesKept \/ Cleanup]_vars
  /\ [][(QueueSubmit \/ QueuePoll \/ Fire \/ QueueReport \/ QueueIngest) => QueuesKept]_vars

\* the sweep has removed the first command of a queue and the second is now its head
C29_Witness ==
  \E d \in DOMAIN pendingCommands :
    /\ Len(pendingCommands[d]) = 1
    /\ pendingCommands[d][1].uid = 2
    /\ deliveries[1] = 1

\* the notifications that tell the observers that a command has reached a terminal status
TerminalEvents == {"commandUpdate", "commandsProcessed", "commandTimeout"}

\* the commands named by the terminal notifications of a broadcast
TerminallyNotified(events) ==
  UNION {{events[n].commands[i].uid : i \in 1..Len(events[n].commands)} :
           n \in {m \in 1..Len(events) : events[m].event \in TerminalEvents}}

\* C30: for every command at most one terminal notification (completion or failure
\* update, processed-by-poll, timeout) is ever broadcast: a handler broadcasts one only
\* for a command that was pending, hence not yet notified, when the handler started,
\* and only one for it; and a successful submit broadcasts exactly one command-issued
\* notification.
C30_OneTerminalNotification ==
  [][/\ \A u \in TerminallyNotified(emitted') :
          /\ \E c \in AllCommands(pendingCommands) : c.uid = u /\ IsPending(c)
          /\ Cardinality({n \in 1..Len(emitted') :
                            /\ emitted'[n].event \in TerminalEvents
                            /\ \E i \in 1..Len(emitted'[n].commands) :
                                 emitted'[n].commands[i].uid = u}) = 1
     /\ \A d \in RequestDevices, command \in LifecycleKinds :
          (PushSendCommand(d, command, Undefined, Undefined) /\ Len(timers') = Len(timers) + 1)
            => Cardinality({n \in 1..Len(emitted') : emitted'[n].event = "commandIssued"}) = 1
    ]_vars

\* C31: the value handed to the device for each polled command equals the value
\* recorded in that command at submission, also when the submitter gave an explicit
\* value different from the default of the kind.
C31_PolledValue ==
  [][\A d \in RequestDevices :
       GetCommands(d) =>
         \A i \in 1..Len(GetCommandsPending(d)) :
           GetCommandsBody(d)[i].value = GetCommandsPending(d)[i].value]_vars

\* C32: when a light_on or light_off command is submitted and then reported as failed,
\* with nothing else happening for that device in between, the device's projected
\* light is the value it had immediately before the command was submitted.
C32_FailureRestoresLight ==
  [][\A d \in RequestDevices \cap DOMAIN deviceStates, commandId \in Instants,
        error \in ReportedErrors :
       LET i == ReportTarget(d, commandId)
       IN (/\ i # 0
           /\ pendingCommands[d][i].command \in LightKinds
           /\ emitted = <<Event("commandIssued", d, <<pendingCommands[d][i]>>)>>
           /\ PostCommandFailed(d, commandId, error))
          => deviceStates'[d].light = lightBefore[pendingCommands[d][i].uid]]_vars

\* the latest reading of d is the payload with the timestamp of the receipt, and the
\* latest reading of every other device is as it was
LatestIsStamped(d, data) ==
  /\ DOMAIN sensorData' = DOMAIN sensorData \cup {d}
  /\ DOMAIN sensorData'[d] = {"sample", "ledStatus", "timestamp"}
  /\ sensorData'[d].sample = data.sample
  /\ sensorData'[d].ledStatus = data.ledStatus
  /\ sensorData'[d].timestamp = now
  /\ \A e \in DOMAIN sensorData \ {d} : sensorData'[e] = sensorData[e]

\* C33: immediately after a telemetry ingest for device d, the latest reading of d is
\* the ingested payload with a timestamp assigned at receipt, in place of any timestamp
\* the payload carried, and the latest reading of every other device is unchanged.
C33_LatestReading ==
  [][\A d \in StampDevices : \A data \in Payloads(d) :
       (MayStamp /\ (Update(d, data) \/ LegacyUpdate(d, data)))
         => LatestIsStamped(d, data)]_vars

\* the devices that have reported and whose readings are recorded under the group
ReportedOf(group) == {d \in DOMAIN sensorData : PlantTypeOf(d) = group}

\* C34: byGroup(group) returns the latest reading of every device of the group that has
\* reported, and not-found exactly when no device whose readings are recorded under
\* the group has ever reported; after an unmapped device has reported, byGroup(unknown)
\* returns that device's latest reading.
C34_ByGroup ==
  \A group \in PlantTypes :
    IF ReportedOf(group) = {}
      THEN SensorDataReply(group).status = "404 No data found"
      ELSE /\ SensorDataReply(group).status = "200"
           /\ SensorDataReply(group).data = [d \in ReportedOf(group) |-> sensorData[d]]

\* C35: in every reachable state every device state entry is a complete projection:
\* its light is a defined boolean and its last-watered, last-nutrients and last-updated
\* fields are present, also in an entry created by a poll or by telemetry of a device
\* that was not registered at start-up.
C35_CompleteProjection ==
  \A d \in DOMAIN deviceStates :
    /\ deviceStates[d].light \in {"true", "false"}
    /\ deviceStates[d].lastWatered # Undefined
    /\ deviceStates[d].lastNutrients # Undefined
    /\ deviceStates[d].lastUpdated # Undefined

\* C36: the set of known device identifiers only grows: no operation (ingest, submit,
\* poll, report, timeout, sweep, observer join) removes a device state entry.
C36_RegistryGrows ==
  [][DOMAIN deviceStates \subseteq DOMAIN deviceStates']_vars

\* a device that was not registered at start-up has an entry, it is stale, and a sweep
\* has run over it
C36_Witness ==
  /\ nextCleanup > CleanupInterval
  /\ "esp32_9" \in DOMAIN deviceStates
  /\ deviceStates["esp32_9"].connectionStatus = "disconnected"

\* C38: observer activity never changes core state: an observer that joins, leaves or
\* sends a requestCommand event leaves every command queue, every timer, every device's
\* projected state, every latest reading and every history unchanged; a requestCommand
\* is only broadcast again, it is not enqueued.
C38_ObserversChangeNothing ==
  [][GatewayObserver =>
       /\ UNCHANGED <<pendingCommands, timers, deviceStates, sensorData, historicalData>>
       /\ created' = created]_vars

\* an observer's requestCommand has just been broadcast while the queue of the device
\* it names is empty
C38_Witness ==
  /\ Len(emitted) = 1
  /\ emitted[1].event = "commandRequested"
  /\ emitted[1].deviceId \notin DOMAIN pendingCommands
  /\ DOMAIN sensorData # {}

\* the queue, the timers and the projected state of every device other than a are as
\* they were
OthersUnchanged(a) ==
  /\ DOMAIN pendingCommands' \ {a} = DOMAIN pendingCommands \ {a}
  /\ \A b \in DOMAIN pendingCommands \ {a} : pendingCommands'[b] = pendingCommands[b]
  /\ DOMAIN deviceStates' \ {a} = DOMAIN deviceStates \ {a}
  /\ \A b \in DOMAIN deviceStates \ {a} : deviceStates'[b] = deviceStates[b]
  /\ \A k \in DOMAIN timers :
       timers[k].deviceId # a => (k \in DOMAIN timers' /\ timers'[k] = timers[k])
  /\ \A k \in DOMAIN timers' \ DOMAIN timers : timers'[k].deviceId = a

\* C37: submit, poll, outcome report and timeout firing for device a leave the command
\* queue, the timers and the projected state of every other device unchanged, and a
\* telemetry ingest leaves every command queue and every timer unchanged.
C37_Frame ==
  [][/\ \A a \in RequestDevices :
          (\/ SendCommand(a, "water_plant", Undefined, Undefined)
           \/ GetCommands(a)
           \/ \E commandId \in Instants : CommandCompleted(a, commandId, FALSE)
           \/ \E k \in DOMAIN timers : timers[k].deviceId = a /\ TimeoutCallback(k))
            => OthersUnchanged(a)
     /\ FrameIngest => UNCHANGED <<pendingCommands, timers>>]_vars

\* two devices have a command each, one completed by a poll and its timer fired, the
\* other still pending with its timer armed
C37_Witness ==
  \E a, b \in DOMAIN pendingCommands :
    /\ a # b
    /\ Len(pendingCommands[a]) = 1 /\ Len(pendingCommands[b]) = 1
    /\ pendingCommands[a][1].status = COMPLETED
    /\ pendingCommands[b][1].status = PENDING
    /\ \E k \in DOMAIN timers : timers[k].deviceId = a /\ timers[k].state # "armed"

\* C39: in every reachable state a device whose connectivity status is connected has a
\* non-null last-seen time.
C39_ConnectedHasLastSeen ==
  \A d \in DOMAIN deviceStates :
    deviceStates[d].connectionStatus = "connected" =>
      deviceStates[d].lastSeen \notin {Null, Undefined}

\* a device that was not registered at start-up is connected after its poll, next to a
\* registered device that was never seen
C39_Witness ==
  /\ "esp32_9" \in DOMAIN deviceStates
  /\ deviceStates["esp32_9"].connectionStatus = "connected"
  /\ deviceStates["esp32_9"].light = "undefined"
  /\ deviceStates["esp32_1"].lastSeen = Null

\* the next reading of the streaming device, as the handler would append it
NextReading == TimestampedData(Reading(ingested[StreamDevice] + 1, NoStatus), now, StreamDevice)

\* C40: the two bounded-history implementations are equivalent: from the same history
\* of length at most the capacity, appending a reading and evicting with shift() when
\* the length exceeds the capacity gives the same sequence as appending and taking
\* slice(-capacity).
C40_ShiftEqualsSlice ==
  \A plantType \in DOMAIN historicalData :
    Len(historicalData[plantType]) <= HistoryCapacity =>
      ShiftHistory(Append(historicalData[plantType], NextReading)) =
        TrimHistory(Append(historicalData[plantType], NextReading))

\* a history is full, so that the next append evicts, and another one is not
C40_Witness ==
  \E full, short \in DOMAIN historicalData :
    /\ Len(historicalData[full]) = HistoryCapacity
    /\ Len(Append(historicalData[full], NextReading)) > HistoryCapacity
    /\ Len(historicalData[short]) < HistoryCapacity

====
